---- MODULE Spec2Model ----
(***************************************************************************)
(* Model of the RPC transport and validation subsystem of                  *)
(* bitcoin-cli-rpc-wrapper: commands/validators.py (InputValidator) and    *)
(* rpc_client.py (BitcoinRPCError, BitcoinRPCClient).                      *)
(*                                                                         *)
(* Python values are records [t, i, s]: t is the Python type, i the        *)
(* integer payload, s the text payload as a sequence of one-character (or  *)
(* opaque fragment) strings, so that regular-expression matching and       *)
(* f-string formatting are computed position by position.                  *)
(***************************************************************************)
EXTENDS Integers, Sequences, FiniteSets, TLC

(* ------------------------------ bounds --------------------------------- *)
\* longest string handed to sanitize_rpc_param on its own
MaxStrLen == 3
\* longest parameter list handed to validate_json_rpc_params on its own
MaxParams == 3

(* --------------------------- Python values ----------------------------- *)
None == [t |-> "NoneType", i |-> 0, s |-> <<>>]
PyInt(n) == [t |-> "int", i |-> n, s |-> <<>>]
PyFloat(n) == [t |-> "float", i |-> n, s |-> <<>>]
PyBool(b) == [t |-> "bool", i |-> IF b THEN 1 ELSE 0, s |-> <<>>]
PyStr(cs) == [t |-> "str", i |-> 0, s |-> cs]
\* lists, dicts and tuples are opaque: i identifies the object
PyList(id) == [t |-> "list", i |-> id, s |-> <<>>]
PyDict(id) == [t |-> "dict", i |-> id, s |-> <<>>]
PyTuple(id) == [t |-> "tuple", i |-> id, s |-> <<>>]

\* truth value of a Python value
IsTrue(x) ==
  CASE x.t = "NoneType" -> FALSE
    [] x.t = "str" -> Len(x.s) > 0
    [] x.t \in {"bool", "int", "float"} -> x.i # 0
    [] OTHER -> TRUE

\* str(x) for the values above, as a sequence of text fragments
str(x) ==
  CASE x.t = "str" -> x.s
    [] x.t = "NoneType" -> <<"None">>
    [] x.t = "bool" -> IF x.i = 1 THEN <<"True">> ELSE <<"False">>
    [] x.t \in {"int", "float"} -> <<ToString(x.i)>>
    [] OTHER -> <<"<", x.t, ToString(x.i), ">">>

\* f"{type(x)}"
TypeRepr(x) == <<"<class '", x.t, "'>">>

\* needle occurs in hay as a contiguous run ("needle in hay" on text)
Contains(hay, needle) ==
  \E k \in 0..(Len(hay) - Len(needle)) :
    \A j \in 1..Len(needle) : hay[k + j] = needle[j]

(* ---------------------- commands/validators.py ------------------------- *)
Lower == {"a","b","c","d","e","f","g","h","i","j","k","l","m",
          "n","o","p","q","r","s","t","u","v","w","x","y","z"}
Upper == {"A","B","C","D","E","F","G","H","I","J","K","L","M",
          "N","O","P","Q","R","S","T","U","V","W","X","Y","Z"}
Digits == {"0","1","2","3","4","5","6","7","8","9"}
\* the character class [a-zA-Z0-9\-_./:]
AllowedChars == Lower \cup Upper \cup Digits \cup {"-", "_", ".", "/", ":"}

\* re.compile(r'^[a-zA-Z0-9\-_./:]+$').match(cs): one or more characters of
\* the class from the start, then '$', which in Python matches at the end of
\* the string and also just before a newline that ends the string
allowed_chars_match(cs) ==
  \E k \in 1..Len(cs) :
    /\ \A j \in 1..k : cs[j] \in AllowedChars
    /\ \/ k = Len(cs)
       \/ k = Len(cs) - 1 /\ cs[Len(cs)] = "\n"

\* outcome of a call of sanitize_rpc_param: a returned value or a ValueError
SanOk(v) == [ok |-> TRUE, val |-> v, err |-> <<>>]
SanRaise(msg) == [ok |-> FALSE, val |-> None, err |-> msg]

sanitize_rpc_param(param) ==
  IF param.t # "str" THEN SanOk(PyStr(str(param)))
  ELSE IF ~allowed_chars_match(param.s)
       THEN SanRaise(<<"Invalid characters in parameter: ">> \o param.s)
       ELSE SanOk(param)

\* outcome of a call of validate_json_rpc_params
ValOk(vs) == [ok |-> TRUE, vals |-> vs, err |-> <<>>]
ValRaise(msg) == [ok |-> FALSE, vals |-> <<>>, err |-> msg]

\* a loop body that passes every supported element through the sanitiser
validate_element_sanitizes_all(param) ==
  IF param.t \in {"str", "int", "float", "bool", "NoneType", "list", "dict"}
  THEN sanitize_rpc_param(param)
  ELSE SanRaise(<<"Unsupported parameter type: ">> \o TypeRepr(param))

\* one iteration of the loop body: the value appended, or the ValueError
validate_element(param) ==
  IF param.t = "str" THEN sanitize_rpc_param(param)
  ELSE IF param.t \in {"int", "float", "bool"} THEN SanOk(param)
  ELSE IF param.t = "NoneType" THEN SanOk(param)
  ELSE IF param.t \in {"list", "dict"} THEN SanOk(param)
  ELSE SanRaise(<<"Unsupported parameter type: ">> \o TypeRepr(param))

RECURSIVE validate_loop(_, _, _)
validate_loop(params, i, validated_params) ==
  IF i > Len(params) THEN ValOk(validated_params)
  ELSE LET r == validate_element(params[i])
       IN IF r.ok THEN validate_loop(params, i + 1, Append(validated_params, r.val))
          ELSE ValRaise(r.err)

\* a loop that keeps going after a failure and reports the last one
RECURSIVE validate_loop_last(_, _, _, _)
validate_loop_last(params, i, validated_params, failure) ==
  IF i > Len(params)
  THEN IF failure.ok THEN ValOk(validated_params) ELSE ValRaise(failure.err)
  ELSE LET r == validate_element(params[i])
       IN IF r.ok
          THEN validate_loop_last(params, i + 1, Append(validated_params, r.val), failure)
          ELSE validate_loop_last(params, i + 1, validated_params, r)

validate_json_rpc_params_reports_last(params) ==
  validate_loop_last(params, 1, <<>>, SanOk(None))

validate_json_rpc_params(params) == validate_loop(params, 1, <<>>)

\* an empty list is refused instead of being walked
validate_json_rpc_params_arg_rejects_empty(arg) ==
  IF arg.absent
  THEN [ok |-> FALSE, exc |-> "TypeError", vals |-> <<>>,
        err |-> <<"'NoneType' object is not iterable">>]
  ELSE IF arg.items = <<>>
  THEN [ok |-> FALSE, exc |-> "ValueError", vals |-> <<>>,
        err |-> <<"No parameters">>]
  ELSE LET r == validate_json_rpc_params(arg.items)
       IN [ok |-> r.ok, exc |-> IF r.ok THEN "" ELSE "ValueError",
           vals |-> r.vals, err |-> r.err]

\* validate_json_rpc_params called with the argument as the caller holds it:
\* "for param in params" over None raises TypeError before the loop starts
validate_json_rpc_params_arg(arg) ==
  IF arg.absent
  THEN [ok |-> FALSE, exc |-> "TypeError", vals |-> <<>>,
        err |-> <<"'NoneType' object is not iterable">>]
  ELSE LET r == validate_json_rpc_params(arg.items)
       IN [ok |-> r.ok, exc |-> IF r.ok THEN "" ELSE "ValueError",
           vals |-> r.vals, err |-> r.err]

(* --------------------------- rpc_client.py ----------------------------- *)
\* Retry(total=3, ...)
RetryTotal == 3
\* Retry(status_forcelist=[429, 500, 502, 503, 504], allowed_methods=["POST"])
StatusForcelist == {429, 500, 502, 503, 504}
\* config.rpc_url and config.timeout of the resolved configuration
RpcUrl == "http://127.0.0.1:8332"
Timeout == 30

\* what a call of a method of the client produces: a value or an exception
NoOutcome ==
  [kind |-> "none", exc |-> "", value |-> None,
   message |-> None, code |-> None, data |-> None]
Return(v) ==
  [kind |-> "return", exc |-> "", value |-> v,
   message |-> None, code |-> None, data |-> None]
Raise(exc, message) ==
  [kind |-> "raise", exc |-> exc, value |-> None,
   message |-> message, code |-> None, data |-> None]
\* BitcoinRPCError(message, code, data)
BitcoinRPCError(message, code, data) ==
  [kind |-> "raise", exc |-> "BitcoinRPCError", value |-> None,
   message |-> message, code |-> code, data |-> data]

\* the decoded "error" member of a response body
ErrorNull ==
  [kind |-> "null", hasMessage |-> FALSE, message |-> None,
   hasCode |-> FALSE, code |-> None, hasData |-> FALSE, data |-> None]
ErrorOther ==
  [kind |-> "other", hasMessage |-> FALSE, message |-> None,
   hasCode |-> FALSE, code |-> None, hasData |-> FALSE, data |-> None]
ErrorObject(hm, m, hc, c, hd, d) ==
  [kind |-> "object", hasMessage |-> hm, message |-> IF hm THEN m ELSE None,
   hasCode |-> hc, code |-> IF hc THEN c ELSE None,
   hasData |-> hd, data |-> IF hd THEN d ELSE None]

\* a response body: its text, whether response.json() decodes it and to what
TextBody ==
  [json |-> "invalid", text |-> <<"<html>">>, hasError |-> FALSE,
   error |-> ErrorNull, hasResult |-> FALSE, result |-> None]
ArrayBody ==
  [json |-> "array", text |-> <<"[]">>, hasError |-> FALSE,
   error |-> ErrorNull, hasResult |-> FALSE, result |-> None]
ObjectBody(he, e, hr, r) ==
  [json |-> "object", text |-> <<"{..}">>, hasError |-> he,
   error |-> IF he THEN e ELSE ErrorNull,
   hasResult |-> hr, result |-> IF hr THEN r ELSE None]

\* dict.get(key, default)
DictGet(has, v, default) == IF has THEN v ELSE default

\* response.raise_for_status(): HTTPError for 4xx and 5xx, nothing otherwise
raise_for_status_raises(status) == 400 <= status /\ status < 600

\* lines 102-111: the BitcoinRPCError raised for an HTTPError
http_error(status, body) ==
  IF status = 401
  THEN BitcoinRPCError(PyStr(<<"Authentication failed">>), PyInt(0 - 1), None)
  ELSE IF status = 403
  THEN BitcoinRPCError(PyStr(<<"Access forbidden">>), PyInt(0 - 1), None)
  ELSE IF status = 404
  THEN BitcoinRPCError(PyStr(<<"RPC endpoint not found">>), PyInt(0 - 1), None)
  ELSE BitcoinRPCError(PyStr(<<"HTTP ", ToString(status), ": ">> \o body.text),
                       PyInt(0 - 1), None)

\* lines 121-126: the BitcoinRPCError raised for a non-null "error" member;
\* error.get exists only on a mapping
rpc_error_rewritten(error) ==
  IF error.kind = "object"
  THEN BitcoinRPCError(PyStr(<<"RPC error: ">> \o str(error.message)),
                       DictGet(error.hasCode, error.code, PyInt(0 - 1)),
                       None)
  ELSE Raise("AttributeError", PyStr(<<"object has no attribute 'get'">>))

rpc_error(error) ==
  IF error.kind = "object"
  THEN BitcoinRPCError(
         DictGet(error.hasMessage, error.message, PyStr(<<"Unknown RPC error">>)),
         DictGet(error.hasCode, error.code, PyInt(0 - 1)),
         DictGet(error.hasData, error.data, None))
  ELSE Raise("AttributeError", PyStr(<<"object has no attribute 'get'">>))

\* line 129: data.get("result")
result_of_or_empty(body) ==
  IF body.hasResult /\ IsTrue(body.result) THEN Return(body.result)
  ELSE Return(PyDict(9))

result_of(body) == Return(DictGet(body.hasResult, body.result, None))

\* lines 115-117: the BitcoinRPCError raised when response.json() fails,
\* here told as a plain failure with code -1
parse_error_generic(body) ==
  BitcoinRPCError(PyStr(<<"Invalid JSON response: ">> \o body.text),
                  PyInt(0 - 1), None)

parse_error(body) ==
  BitcoinRPCError(PyStr(<<"Invalid JSON response: ">> \o body.text),
                  PyInt(0 - 32700), None)

\* _handle_response that returns a present result before looking for "error"
_handle_response_result_first(response) ==
  LET body == response.body
  IN IF raise_for_status_raises(response.status)
     THEN http_error(response.status, body)
     ELSE IF body.json = "invalid" THEN parse_error(body)
     ELSE IF body.json # "object"
     THEN Raise("AttributeError", PyStr(<<"object has no attribute 'get'">>))
     ELSE IF body.hasResult THEN result_of(body)
     ELSE IF body.hasError /\ body.error.kind # "null"
     THEN rpc_error(body.error)
     ELSE result_of(body)

\* _handle_response that looks for the "error" member before the status
_handle_response_body_first(response) ==
  LET body == response.body
  IN IF body.json = "object" /\ body.hasError /\ body.error.kind # "null"
     THEN rpc_error(body.error)
     ELSE IF raise_for_status_raises(response.status)
     THEN http_error(response.status, body)
     ELSE IF body.json = "invalid"
     THEN parse_error(body)
     ELSE IF body.json # "object"
     THEN Raise("AttributeError", PyStr(<<"object has no attribute 'get'">>))
     ELSE result_of(body)

_handle_response(response) ==
  LET status == response.status
      body == response.body
  IN IF raise_for_status_raises(status) THEN http_error(status, body)
     ELSE IF body.json = "invalid"
     THEN parse_error(body)
     ELSE IF body.json # "object"
     THEN \* "error" in data is False on a list, and a list has no get
          Raise("AttributeError", PyStr(<<"object has no attribute 'get'">>))
     ELSE IF body.hasError /\ body.error.kind # "null"
     THEN rpc_error(body.error)
     ELSE result_of(body)

(* ------------------------------ inputs --------------------------------- *)
SeqsUpTo(S, n) == UNION {[1..k -> S] : k \in 0..n}

\* close() calls (close, __exit__ and __del__ together) in one run
MaxCloses == 2
\* largest reading of time.time() * 1000000
MaxClock == 1

\* the params argument of call: absent (None) or a list
Absent == [absent |-> TRUE, items |-> <<>>]
Given(items) == [absent |-> FALSE, items |-> items]
\* "if params:" and "params or []"
Truthy(params) == ~params.absent /\ Len(params.items) > 0

Methods == {"getblock", "getblockchaininfo"}
CallParams ==
  {Absent, Given(<<>>),
   Given(<<PyStr(<<"a">>)>>),
   Given(<<PyStr(<<"a">>), PyInt(1)>>),
   Given(<<PyStr(<<"a", "\n">>)>>),
   Given(<<PyStr(<<";">>)>>),
   Given(<<PyStr(<<>>)>>),
   Given(<<PyStr(<<"\n">>)>>),
   Given(<<PyStr(<<" ", ";">>)>>),
   Given(<<PyStr(<<"a">>), PyStr(<<";">>)>>),
   Given(<<PyStr(<<";">>), PyStr(<<"a">>)>>),
   Given(<<PyTuple(1), PyStr(<<";">>)>>),
   Given(<<PyInt(1), None, PyStr(<<>>)>>),
   Given(<<PyTuple(1)>>)}

\* what the server (or the network) does to one HTTP attempt
ErrorObjects ==
  {ErrorObject(hm, PyStr(<<"Block not found">>), hc, PyInt(0 - 5), hd, PyDict(2)) :
     hm \in BOOLEAN, hc \in BOOLEAN, hd \in BOOLEAN}
ResultValues == {None, PyInt(100), PyList(1), PyDict(1)}
FullError == ErrorObject(TRUE, PyStr(<<"Block not found">>), TRUE, PyInt(0 - 5), FALSE, None)
FullBodies ==
  {TextBody, ArrayBody}
  \cup {ObjectBody(he, ErrorNull, hr, r) :
          he \in BOOLEAN, hr \in BOOLEAN, r \in ResultValues}
  \cup {ObjectBody(TRUE, e, FALSE, None) : e \in ErrorObjects}
  \cup {ObjectBody(TRUE, FullError, TRUE, PyDict(1)),
        ObjectBody(TRUE, ErrorOther, FALSE, None),
        ObjectBody(TRUE, ErrorOther, TRUE, PyDict(1))}
FewBodies == {TextBody, ObjectBody(TRUE, FullError, FALSE, None)}
Statuses == {200, 201, 301, 400, 401, 403, 404, 503}
Response(status, body) == [ev |-> "response", status |-> status, body |-> body]
Failure(ev) == [ev |-> ev, status |-> 0, body |-> TextBody]
TransportEvents ==
  {Response(200, b) : b \in FullBodies}
  \cup {Response(st, b) : st \in Statuses \ {200}, b \in FewBodies}
  \cup {Failure(ev) : ev \in {"refused", "connect_timeout", "read_timeout"}}

(* ------------------------------- state --------------------------------- *)
VARIABLES
  session,      \* self.session: "ready" (a requests.Session) or "none"
  released,     \* how many times the underlying Session.close() has run
  closes,       \* how many times close() has been called
  pc,           \* where the calling flow is: "idle", "inflight" (inside
                \* session.post), "between" (get_node_info between its two
                \* calls), "gone" (after __del__)
  op,           \* the public operation being executed, its call number and
                \* how its previous call ended
  info,         \* blockchain_info of a get_node_info in progress
  last,         \* the most recent call(): arguments, session seen, posted,
                \* and whether close() ran while its post was in flight
  request,      \* request_data of the call in flight
  retriesLeft,  \* Retry.total left for the post in flight
  history,      \* status of each HTTP attempt of the most recent post (0: none)
  ret,          \* outcome of the most recent call()
  opRet,        \* outcome of the most recent public operation
  resp,         \* the response the most recent call() handled
  cause,        \* what made session.post raise in the most recent call():
                \* "" (it did not), "refused", "connect_timeout",
                \* "read_timeout", "response" (retries used up on a status)
  scope,        \* the with-statement over the client
  log,          \* the log records emitted since the most recent operation
                \* on the client began
  config,       \* the configuration the client was constructed with
  tls,          \* how often _setup_session suppressed the insecure-request
                \* warning, and how often it logged that verification is off
  now,          \* time.time() * 1000000, as _create_request reads it
  ids,          \* the id of every request _create_request has built
  vmode,        \* validator run: "off", "sanitize", "validate"
  vparam,       \* argument of sanitize_rpc_param
  vparams,      \* argument of validate_json_rpc_params: a list or None
  vres,         \* what the validator run produced
  vagain        \* what validating the validated list once more produced

clientVars ==
  <<session, released, closes, pc, op, info, last, request, retriesLeft,
    history, ret, opRet, resp, cause, scope, log>>
validatorVars == <<vmode, vparam, vparams, vres, vagain>>
setupVars == <<config, tls>>
idVars == <<now, ids>>
vars == <<clientVars, validatorVars, setupVars, idVars>>

NoCall ==
  [method |-> "", params |-> Absent, session |-> "", posted |-> FALSE,
   interrupted |-> FALSE]
NoRequest == [jsonrpc |-> "", id |-> 0 - 1, method |-> "", params |-> <<>>]
NoResponse == [status |-> 0, body |-> TextBody]
NoOp == [name |-> "none", phase |-> 0, prev |-> ""]
NoScope ==
  [st |-> "out", ret |-> "", before |-> "", after |-> "",
   raised |-> FALSE, propagated |-> FALSE]
NoRun ==
  [done |-> FALSE, ok |-> FALSE, exc |-> "", val |-> None, vals |-> <<>>,
   err |-> <<>>]

\* BitcoinRPCClient.__init__: the session is set up
ClientInit ==
  /\ session = "ready" /\ released = 0 /\ closes = 0
  /\ pc = "idle" /\ op = NoOp /\ info = None
  /\ last = NoCall /\ request = NoRequest /\ retriesLeft = RetryTotal
  /\ history = <<>> /\ ret = NoOutcome /\ opRet = NoOutcome
  /\ resp = NoResponse /\ cause = "" /\ scope = NoScope

\* a record of the log: logger.<level>(msg)
LogRec(level, msg) == [level |-> level, msg |-> msg]

\* the resolved configuration, as far as the client reads it
Config(use_ssl, ssl_verify) ==
  [use_ssl |-> use_ssl, ssl_verify |-> ssl_verify,
   user |-> "rpcuser", password |-> "rpcpassword"]
\* BITCOIN_RPC_USE_SSL 'false', BITCOIN_RPC_SSL_VERIFY 'true'
DefaultConfig == Config(FALSE, TRUE)
Configs == {Config(u, v) : u \in BOOLEAN, v \in BOOLEAN}

\* config.rpc_url
rpc_url == IF config.use_ssl THEN "https://127.0.0.1:8332" ELSE RpcUrl

\* a session setup that looks at ssl_verify alone
_setup_session_ignores_use_ssl(cfg) ==
  LET off == ~cfg.ssl_verify
  IN [suppressed |-> IF off THEN 1 ELSE 0,
      warned |-> IF off THEN 1 ELSE 0,
      log |-> (IF off
               THEN {LogRec("warning", <<"SSL certificate verification disabled">>)}
               ELSE {})
              \cup {LogRec("debug", <<"HTTP session configured successfully">>)}]

\* _setup_session, lines 70-83: the calls of disable_warnings and the log
_setup_session(cfg) ==
  LET off == cfg.use_ssl /\ ~cfg.ssl_verify
  IN [suppressed |-> IF off THEN 1 ELSE 0,
      warned |-> IF off THEN 1 ELSE 0,
      log |-> (IF off
               THEN {LogRec("warning", <<"SSL certificate verification disabled">>)}
               ELSE {})
              \cup {LogRec("debug", <<"HTTP session configured successfully">>)}]

\* BitcoinRPCClient.__init__ with configuration cfg
ClientInitFor(cfg) ==
  /\ config = cfg
  /\ tls = [suppressed |-> _setup_session(cfg).suppressed,
            warned |-> _setup_session(cfg).warned]
  /\ log = _setup_session(cfg).log
  /\ now = 0 /\ ids = <<>>
  /\ ClientInit

Init ==
  /\ ClientInitFor(DefaultConfig)
  /\ vmode = "off" /\ vparam = None /\ vparams = Absent /\ vres = NoRun
  /\ vagain = NoRun

(* ----------------------- BitcoinRPCClient.call -------------------------- *)
\* _create_request(method, params) at time t
\* a request body that announces protocol version 1.0
_create_request_version_1(method, params, t) ==
  [jsonrpc |-> "1.0", id |-> t, method |-> method,
   params |-> IF Truthy(params) THEN params.items ELSE <<>>]

_create_request(method, params, t) ==
  [jsonrpc |-> "2.0", id |-> t, method |-> method,
   params |-> IF Truthy(params) THEN params.items ELSE <<>>]

\* call, lines 133-141: the session check and the parameter validation.
\* go: the call goes on to build and post the request; out: what it raised
call_precheck_validates_first(sess, params) ==
  LET v == validate_json_rpc_params(params.items)
  IN IF Truthy(params) /\ ~v.ok
     THEN [go |-> FALSE, params |-> params,
           out |-> BitcoinRPCError(PyStr(<<"Invalid parameters: ">> \o v.err),
                                   PyInt(0 - 32602), None)]
     ELSE IF sess = "none"
     THEN [go |-> FALSE, params |-> params,
           out |-> BitcoinRPCError(PyStr(<<"RPC client not initialized">>),
                                   PyInt(0 - 1), None)]
     ELSE [go |-> TRUE, params |-> params, out |-> NoOutcome]

call_precheck_skips_validation(sess, params) ==
  IF sess = "none"
  THEN [go |-> FALSE, params |-> params,
        out |-> BitcoinRPCError(PyStr(<<"RPC client not initialized">>),
                                PyInt(0 - 1), None)]
  ELSE [go |-> TRUE, params |-> params, out |-> NoOutcome]

call_precheck(sess, params) ==
  IF sess = "none"
  THEN [go |-> FALSE, params |-> params,
        out |-> BitcoinRPCError(PyStr(<<"RPC client not initialized">>),
                                PyInt(0 - 1), None)]
  ELSE IF Truthy(params)
  THEN LET v == validate_json_rpc_params(params.items)
       IN IF v.ok
          THEN [go |-> TRUE, params |-> Given(v.vals), out |-> NoOutcome]
          ELSE [go |-> FALSE, params |-> params,
                out |-> BitcoinRPCError(PyStr(<<"Invalid parameters: ">> \o v.err),
                                        PyInt(0 - 32602), None)]
  ELSE [go |-> TRUE, params |-> params, out |-> NoOutcome]

\* One HTTP attempt inside session.post, under the mounted HTTPAdapter with
\* max_retries = Retry(total=3, status_forcelist, allowed_methods=["POST"]):
\* a response whose status is in the forcelist, and a connection-level
\* failure, use up one retry; with none left the post raises.  A response
\* with any other status is returned.  exc is the requests exception raised.
post_attempt_adapter_not_mounted(retries, e) ==
  IF e.ev = "response" THEN [done |-> TRUE, retries |-> retries, exc |-> ""]
  ELSE [done |-> TRUE, retries |-> retries,
        exc |-> IF e.ev = "connect_timeout" THEN "ConnectTimeout"
                ELSE IF e.ev = "read_timeout" THEN "ReadTimeout"
                ELSE "ConnectionError"]

\* a policy whose total counts the first attempt as well
post_attempt_counts_first_attempt(retries, e) ==
  LET retry == e.ev # "response" \/ e.status \in StatusForcelist
  IN IF ~retry THEN [done |-> TRUE, retries |-> retries, exc |-> ""]
     ELSE IF retries - 2 >= 0
     THEN [done |-> FALSE, retries |-> retries - 1, exc |-> ""]
     ELSE [done |-> TRUE, retries |-> retries,
           exc |-> CASE e.ev = "response" -> "RetryError"
                     [] e.ev = "connect_timeout" -> "ConnectTimeout"
                     [] OTHER -> "ConnectionError"]

\* a policy that retries every 4xx and 5xx status
post_attempt_retries_client_errors(retries, e) ==
  LET retry == e.ev # "response" \/ e.status >= 400
  IN IF ~retry THEN [done |-> TRUE, retries |-> retries, exc |-> ""]
     ELSE IF retries - 1 >= 0
     THEN [done |-> FALSE, retries |-> retries - 1, exc |-> ""]
     ELSE [done |-> TRUE, retries |-> retries,
           exc |-> CASE e.ev = "response" -> "RetryError"
                     [] e.ev = "connect_timeout" -> "ConnectTimeout"
                     [] OTHER -> "ConnectionError"]

post_attempt(retries, e) ==
  LET retry == e.ev # "response" \/ e.status \in StatusForcelist
  IN IF ~retry THEN [done |-> TRUE, retries |-> retries, exc |-> ""]
     ELSE IF retries - 1 >= 0
     THEN [done |-> FALSE, retries |-> retries - 1, exc |-> ""]
     ELSE [done |-> TRUE, retries |-> retries,
           exc |-> CASE e.ev = "response" -> "RetryError"
                     [] e.ev = "connect_timeout" -> "ConnectTimeout"
                     [] OTHER -> "ConnectionError"]

\* the except clauses of call, in their order (lines 159-177), applied to an
\* exception of class exc raised inside the try block
call_except_without_catch_all(exc, o) ==
  IF exc \in {"ConnectionError", "ConnectTimeout", "SSLError", "ProxyError"}
  THEN BitcoinRPCError(PyStr(<<"Cannot connect to Bitcoin node at ", rpc_url>>),
                       PyInt(0 - 1), None)
  ELSE IF exc \in {"Timeout", "ReadTimeout"}
  THEN BitcoinRPCError(
         PyStr(<<"Request timeout after ", ToString(Timeout), " seconds">>),
         PyInt(0 - 1), None)
  ELSE IF exc \in {"RequestException", "RetryError"}
  THEN BitcoinRPCError(PyStr(<<"Request failed: ", exc>>), PyInt(0 - 1), None)
  ELSE o

call_except(exc, o) ==
  IF exc \in {"ConnectionError", "ConnectTimeout", "SSLError", "ProxyError"}
  THEN BitcoinRPCError(PyStr(<<"Cannot connect to Bitcoin node at ", rpc_url>>),
                       PyInt(0 - 1), None)
  ELSE IF exc \in {"Timeout", "ReadTimeout"}
  THEN BitcoinRPCError(
         PyStr(<<"Request timeout after ", ToString(Timeout), " seconds">>),
         PyInt(0 - 1), None)
  ELSE IF exc \in {"RequestException", "RetryError"}
  THEN BitcoinRPCError(PyStr(<<"Request failed: ", exc>>), PyInt(0 - 1), None)
  ELSE IF exc = "BitcoinRPCError" THEN o
  ELSE BitcoinRPCError(PyStr(<<"Unexpected error: ">> \o o.message.s),
                       PyInt(0 - 1), None)

\* call, lines 148-177, once session.post is over: st is what post_attempt
\* said of the last attempt e
call_finish(st, e) ==
  IF st.exc # "" THEN call_except(st.exc, NoOutcome)
  ELSE LET o == _handle_response([status |-> e.status, body |-> e.body])
       IN IF o.kind = "raise" THEN call_except(o.exc, o) ELSE o

(* ---------------- test_connection, get_node_info ----------------------- *)
\* the summary mapping of get_node_info (six keys)
SummaryDict == PyDict(0)

\* get_node_info, lines 196-203: .get on both results
get_node_info_summary(blockchain_info, network_info) ==
  IF blockchain_info.t = "dict" /\ network_info.t = "dict"
  THEN Return(SummaryDict)
  ELSE Raise("AttributeError", PyStr(<<"object has no attribute 'get'">>))

\* test_connection that answers False when its call fails
op_result_false_on_failure(name, o, blockchain_info) ==
  CASE name = "test_connection" ->
         IF o.kind = "return" THEN Return(PyBool(TRUE))
         ELSE Return(PyBool(FALSE))
    [] name = "get_node_info" ->
         IF o.kind = "return" THEN get_node_info_summary(blockchain_info, o.value)
         ELSE o
    [] OTHER -> o

\* what the public operation makes of the outcome o of its last call()
op_result(name, o, blockchain_info) ==
  CASE name = "test_connection" ->
         IF o.kind = "return" THEN Return(PyBool(TRUE)) ELSE o
    [] name = "get_node_info" ->
         IF o.kind = "return" THEN get_node_info_summary(blockchain_info, o.value)
         ELSE o
    [] OTHER -> o

\* get_node_info that goes on to its second call whatever the first did
Complete_continues_after_failure(name, phase, o) ==
  IF name = "get_node_info" /\ phase = 1
  THEN pc' = "between" /\ info' = o.value /\ opRet' = NoOutcome
  ELSE pc' = "idle" /\ info' = None /\ opRet' = op_result(name, o, info)

\* a call() of operation name (its phase-th) ended with outcome o
Complete(name, phase, o) ==
  IF name = "get_node_info" /\ phase = 1 /\ o.kind = "return"
  THEN pc' = "between" /\ info' = o.value /\ opRet' = NoOutcome
  ELSE pc' = "idle" /\ info' = None /\ opRet' = op_result(name, o, info)

(* ------------------------------ logging -------------------------------- *)
RECURSIVE repr_items(_, _)
repr_items(items, i) ==
  IF i > Len(items) THEN <<>>
  ELSE str(items[i]) \o repr_items(items, i + 1)

\* {params} in an f-string: the repr of the list, or None
repr_params(params) ==
  IF params.absent THEN <<"None">>
  ELSE <<"[">> \o repr_items(params.items, 1) \o <<"]">>

\* call, line 146
call_log_begin(method, params) ==
  {LogRec("debug", <<"RPC call: ", method, " with params: ">> \o repr_params(params))}

\* call and _handle_response, lines 103, 116, 156-176: what is logged when
\* session.post is over
call_log_end(method, st, e) ==
  IF st.exc \in {"ConnectionError", "ConnectTimeout", "SSLError", "ProxyError"}
  THEN {LogRec("error", <<"Connection error: ", st.exc>>)}
  ELSE IF st.exc \in {"Timeout", "ReadTimeout"}
  THEN {LogRec("error", <<"Request timeout: ", st.exc>>)}
  ELSE IF st.exc # ""
  THEN {LogRec("error", <<"Request error: ", st.exc>>)}
  ELSE IF raise_for_status_raises(e.status)
  THEN {LogRec("error", <<"HTTP error: ", ToString(e.status)>>)}
  ELSE IF e.body.json = "invalid"
  THEN {LogRec("error", <<"Invalid JSON response: ", "JSONDecodeError">>)}
  ELSE LET o == _handle_response([status |-> e.status, body |-> e.body])
       IN IF o.kind = "return"
          THEN {LogRec("debug", <<"RPC call successful: ", method>>)}
          ELSE IF o.exc = "BitcoinRPCError" THEN {}
          ELSE {LogRec("error", <<"Unexpected error: ">> \o o.message.s)}

\* test_connection, lines 184 and 187; str(e) is BitcoinRPCError.__str__
op_log(name, o) ==
  IF name # "test_connection" THEN {}
  ELSE IF o.kind = "return"
  THEN {LogRec("info", <<"Connection test successful">>)}
  ELSE {LogRec("error", <<"Connection test failed: ", "Bitcoin RPC Error ">>
                         \o str(o.code) \o <<": ">> \o o.message.s)}

\* what a command-layer method logs before it calls the client
command_log(name, params) ==
  CASE name = "wallet_passphrase" ->
         {LogRec("debug", <<"Executing walletpassphrase, timeout: ">>
                          \o str(params.items[2]))}
    [] name = "encrypt_wallet" -> {LogRec("debug", <<"Executing encryptwallet">>)}
    [] OTHER -> {}

\* close, line 212
close_log ==
  IF session # "none" THEN log \cup {LogRec("debug", <<"RPC session closed">>)}
  ELSE log

\* self.call(method, params) as the phase-th call of operation name: either
\* it raises before any I/O, or it enters session.post
DoCall(name, phase, method, params) ==
  LET pre == call_precheck(session, params)
  IN /\ op' = [name |-> name, phase |-> phase,
                prev |-> IF phase = 1 THEN "" ELSE ret.kind]
     /\ last' = [method |-> method, params |-> params,
                 session |-> session, posted |-> pre.go,
                 interrupted |-> FALSE]
     /\ resp' = NoResponse
     /\ cause' = ""
     /\ history' = <<>>
     /\ retriesLeft' = RetryTotal
     /\ log' = (IF phase = 1 THEN {} ELSE log)
               \cup command_log(name, params)
               \cup (IF pre.go THEN call_log_begin(method, pre.params)
                     ELSE op_log(name, pre.out))
     /\ IF pre.go
        THEN /\ \E t \in 0..MaxClock :
                  request' = _create_request(method, pre.params, t)
             /\ pc' = "inflight"
             /\ ret' = NoOutcome
             /\ opRet' = NoOutcome
             /\ info' = IF phase = 1 THEN None ELSE info
        ELSE /\ request' = NoRequest
             /\ ret' = pre.out
             /\ Complete(name, phase, pre.out)
     /\ UNCHANGED <<session, released, closes, scope,
                 validatorVars, setupVars, idVars>>

Call(method, params) == pc = "idle" /\ DoCall("call", 1, method, params)

TestConnection == pc = "idle" /\ DoCall("test_connection", 1, "getblockchaininfo", Absent)

GetNodeInfo == pc = "idle" /\ DoCall("get_node_info", 1, "getblockchaininfo", Absent)

GetNodeInfoSecond == pc = "between" /\ DoCall("get_node_info", 2, "getnetworkinfo", Absent)

\* one HTTP attempt of the post in flight, answered by e
Attempt(e) ==
  /\ pc = "inflight"
  /\ LET st == post_attempt(retriesLeft, e)
     IN /\ history' = Append(history, e.status)
        /\ retriesLeft' = st.retries
        /\ IF st.done
           THEN LET o == call_finish(st, e)
                IN /\ ret' = o
                   /\ resp' = IF st.exc = ""
                              THEN [status |-> e.status, body |-> e.body]
                              ELSE NoResponse
                   /\ cause' = IF st.exc = "" THEN "" ELSE e.ev
                   /\ log' = log \cup call_log_end(last.method, st, e)
                                 \cup op_log(op.name, o)
                   /\ request' = NoRequest
                   /\ Complete(op.name, op.phase, o)
           ELSE UNCHANGED <<ret, resp, cause, request, pc, info, opRet, log>>
  /\ UNCHANGED <<session, released, closes, op, last, scope,
                 validatorVars, setupVars, idVars>>

(* ------------------- close, __enter__, __exit__, __del__ ---------------- *)
\* close(), lines 207-212
close_unguarded ==
  /\ session' = "none"
  /\ released' = released + 1

close ==
  IF session # "none"
  THEN session' = "none" /\ released' = released + 1
  ELSE UNCHANGED <<session, released>>

\* close() called directly, possibly by another flow while a call is in flight
Close ==
  /\ pc # "gone"
  /\ closes < MaxCloses
  /\ close
  /\ closes' = closes + 1
  /\ last' = [last EXCEPT !.interrupted = @ \/ pc = "inflight"]
  /\ log' = close_log
  /\ UNCHANGED <<pc, op, info, request, retriesLeft, history, ret,
                 opRet, resp, cause, scope,
                 validatorVars, setupVars, idVars>>

\* __enter__: "with client as c:" binds c to what it returns
Enter ==
  /\ pc = "idle"
  /\ scope.st # "in"
  /\ scope' = [st |-> "in", ret |-> "self", before |-> session,
               after |-> session, raised |-> FALSE, propagated |-> FALSE]
  /\ UNCHANGED <<session, released, closes, pc, op, info, last, request,
                 retriesLeft, history, ret, opRet, resp, cause, log,
                 validatorVars, setupVars, idVars>>

\* what __exit__ returns: nothing, so an exception of the body is not swallowed
exit_return == None

\* __exit__ that forgets to close
ExitWithoutClose(raised) ==
  /\ pc = "idle"
  /\ scope.st = "in"
  /\ closes < MaxCloses
  /\ closes' = closes + 1
  /\ scope' = [NoScope EXCEPT !.st = "exited", !.raised = raised,
                              !.propagated = raised /\ ~IsTrue(exit_return)]
  /\ UNCHANGED <<session, released, pc, op, info, last, request, retriesLeft,
                 history, ret, opRet, resp, cause, log, validatorVars,
                 setupVars, idVars>>

\* __exit__ at the end of the with body, which ended normally or by raising
Exit(raised) ==
  /\ pc = "idle"
  /\ scope.st = "in"
  /\ closes < MaxCloses
  /\ close
  /\ log' = close_log
  /\ closes' = closes + 1
  /\ scope' = [NoScope EXCEPT !.st = "exited", !.raised = raised,
                              !.propagated = raised /\ ~IsTrue(exit_return)]
  /\ UNCHANGED <<pc, op, info, last, request, retriesLeft, history, ret,
                 opRet, resp, cause, validatorVars, setupVars, idVars>>

\* __del__ when the client is garbage-collected outside any call and any
\* with-statement: nothing of the object but its session can be seen after
Del ==
  /\ pc = "idle"
  /\ scope.st # "in"
  /\ closes < MaxCloses
  /\ close
  /\ closes' = closes + 1
  /\ pc' = "gone"
  /\ op' = NoOp /\ info' = None /\ last' = NoCall /\ request' = NoRequest
  /\ retriesLeft' = RetryTotal /\ history' = <<>> /\ ret' = NoOutcome
  /\ opRet' = NoOutcome /\ resp' = NoResponse /\ cause' = ""
  /\ scope' = NoScope /\ log' = {}
  /\ UNCHANGED <<validatorVars, setupVars, idVars>>

Next ==
  \/ \E m \in Methods, p \in CallParams : Call(m, p)
  \/ TestConnection
  \/ GetNodeInfo
  \/ GetNodeInfoSecond
  \/ \E e \in TransportEvents : Attempt(e)
  \/ Close
  \/ Enter
  \/ \E raised \in BOOLEAN : Exit(raised)
  \/ Del

Spec == Init /\ [][Next]_vars

(* --------- wallet commands over the client, any TLS configuration ------- *)
\* passphrases a caller may hand to the wallet commands
Passphrases ==
  {PyStr(<<"h", "u", "n", "t", "e", "r", "2", "2">>),
   PyStr(<<"p", "w">>),
   PyStr(<<"m", "y", " ", "p", "a", "s", "s", "!">>)}
\* "timeout: int = 60", or a value the caller gives
PassphraseTimeouts == {60, 5}
\* "len(passphrase) < 8" in encrypt_wallet
MinPassphraseLen == 8

InitCommands ==
  /\ \E cfg \in Configs : ClientInitFor(cfg)
  /\ vmode = "off" /\ vparam = None /\ vparams = Absent /\ vres = NoRun
  /\ vagain = NoRun

\* WalletCommands.wallet_passphrase(passphrase, timeout)
WalletPassphrase(passphrase, timeout) ==
  /\ pc = "idle"
  /\ DoCall("wallet_passphrase", 1, "walletpassphrase",
            Given(<<passphrase, PyInt(timeout)>>))

\* WalletCommands.encrypt_wallet(passphrase)
EncryptWallet(passphrase) ==
  /\ pc = "idle"
  /\ IF Len(passphrase.s) = 0 \/ Len(passphrase.s) < MinPassphraseLen
     THEN /\ op' = [name |-> "encrypt_wallet", phase |-> 0, prev |-> ""]
          /\ opRet' = Raise("ValueError",
                            PyStr(<<"Passphrase must be at least 8 characters">>))
          /\ log' = {}
          /\ UNCHANGED <<session, released, closes, pc, info, last, request,
                         retriesLeft, history, ret, resp, cause, scope,
                         validatorVars, setupVars, idVars>>
     ELSE DoCall("encrypt_wallet", 1, "encryptwallet", Given(<<passphrase>>))

NextCommands ==
  \/ \E pp \in Passphrases, t \in PassphraseTimeouts : WalletPassphrase(pp, t)
  \/ \E pp \in Passphrases : EncryptWallet(pp)
  \/ \E e \in TransportEvents : Attempt(e)

SpecCommands == InitCommands /\ [][NextCommands]_vars

(* ------------------- request ids against the clock ---------------------- *)
\* largest reading of the microsecond clock
MaxNow == 2
\* requests built in one run
MaxRequests == 3

\* a microsecond passes
Tick ==
  /\ now < MaxNow
  /\ now' = now + 1
  /\ UNCHANGED <<clientVars, validatorVars, setupVars, ids>>

\* _create_request(method, params) at the present reading of the clock
CreateRequest(method, params) ==
  /\ Len(ids) < MaxRequests
  /\ request' = _create_request(method, params, now)
  /\ ids' = Append(ids, now)
  /\ UNCHANGED <<session, released, closes, pc, op, info, last, retriesLeft,
                 history, ret, opRet, resp, cause, scope, log,
                 validatorVars, setupVars, now>>

NextRequestId ==
  \/ Tick
  \/ \E m \in Methods, p \in CallParams : CreateRequest(m, p)

SpecRequestId == Init /\ [][NextRequestId]_vars

(* ------------- the validator on its own, over wider inputs -------------- *)
SanitizeChars == {"a", "7", "_", ";", "\n"}
SanitizeInputs ==
  {PyStr(cs) : cs \in SeqsUpTo(SanitizeChars, MaxStrLen)}
  \cup {PyInt(1), PyFloat(2), PyBool(TRUE), None, PyList(1), PyDict(1)}
ValidateElems ==
  {PyStr(<<"a">>), PyStr(<<";">>), PyStr(<<"a", "\n">>), PyStr(<<>>),
   PyStr(<<"b", " ">>), PyInt(1), PyFloat(2), PyBool(TRUE), None,
   PyList(1), PyDict(1), PyTuple(1)}
ValidateInputs == SeqsUpTo(ValidateElems, MaxParams)

\* list_transactions, line 99: the list of the first call
list_transactions_params(count, skip, include_watchonly) ==
  <<PyStr(<<"*">>), PyInt(count), PyInt(skip), PyBool(include_watchonly)>>

\* get_balance, line 38: the list of the fallback call
get_balance_params(account, min_conf, include_watchonly) ==
  <<account, PyInt(min_conf), PyBool(include_watchonly)>>

\* disconnect_node by node id, line 64
disconnect_node_params(node_id) == <<PyStr(<<>>), PyInt(node_id)>>

\* get_new_address, lines 50-56
get_new_address_params(label, address_type) ==
  LET p1 == IF IsTrue(label) THEN <<label>> ELSE <<>>
  IN IF IsTrue(address_type)
     THEN (IF Len(p1) = 0 THEN <<PyStr(<<>>)>> ELSE p1) \o <<address_type>>
     ELSE p1

\* send_to_address, lines 135-145
send_to_address_params(address, amount, comment, comment_to, subtract_fee) ==
  LET p2 == <<address, PyFloat(amount)>>
      p3 == IF IsTrue(comment) THEN Append(p2, comment) ELSE p2
      p4 == IF IsTrue(comment_to)
            THEN (IF Len(p3) = 2 THEN Append(p3, PyStr(<<>>)) ELSE p3)
                 \o <<comment_to>>
            ELSE p3
      pad(p) == IF Len(p) = 2 THEN p \o <<PyStr(<<>>), PyStr(<<>>)>>
                ELSE IF Len(p) = 3 THEN Append(p, PyStr(<<>>))
                ELSE p
  IN IF subtract_fee THEN Append(pad(p4), PyBool(TRUE)) ELSE p4

\* arguments the commands accept
Labels == {PyStr(<<>>), PyStr(<<"s", "a", "v", "e">>)}
AddressTypes == {None, PyStr(<<"b", "e", "c", "h", "3", "2">>)}
Addresses == {PyStr(<<"b", "c", "1", "q">>)}
Comments == {PyStr(<<>>), PyStr(<<"r", "e", "n", "t">>)}
Accounts == {PyStr(<<"*">>)}

\* the lists the command layer hands to call
CommandParams ==
  {list_transactions_params(10, 0, w) : w \in BOOLEAN}
  \cup {get_balance_params(a, 1, w) : a \in Accounts, w \in BOOLEAN}
  \cup {disconnect_node_params(n) : n \in {0, 7}}
  \cup {get_new_address_params(l, t) : l \in Labels, t \in AddressTypes}
  \cup {send_to_address_params(a, 1, c, ct, f) :
          a \in Addresses, c \in Comments, ct \in Comments, f \in BOOLEAN}

InitValidator ==
  /\ ClientInitFor(DefaultConfig)
  /\ vres = NoRun /\ vagain = NoRun
  /\ \/ vmode = "sanitize" /\ vparam \in SanitizeInputs /\ vparams = Absent
     \/ vmode = "validate" /\ vparam = None
        /\ vparams \in {Absent} \cup {Given(p) : p \in ValidateInputs}
                       \cup {Given(p) : p \in CommandParams}

\* InputValidator.sanitize_rpc_param(vparam)
Sanitize ==
  /\ vmode = "sanitize" /\ ~vres.done
  /\ LET r == sanitize_rpc_param(vparam)
     IN vres' = [done |-> TRUE, ok |-> r.ok,
                 exc |-> IF r.ok THEN "" ELSE "ValueError", val |-> r.val,
                 vals |-> <<>>, err |-> r.err]
  /\ UNCHANGED <<clientVars, setupVars, idVars, vmode, vparam, vparams, vagain>>

\* InputValidator.validate_json_rpc_params(vparams)
Validate ==
  /\ vmode = "validate" /\ ~vres.done
  /\ LET r == validate_json_rpc_params_arg(vparams)
     IN vres' = [done |-> TRUE, ok |-> r.ok, exc |-> r.exc, val |-> None,
                 vals |-> r.vals, err |-> r.err]
  /\ UNCHANGED <<clientVars, setupVars, idVars, vmode, vparam, vparams, vagain>>

\* InputValidator.validate_json_rpc_params(result of the first application)
ValidateAgain ==
  /\ vmode = "validate" /\ vres.done /\ vres.ok /\ ~vagain.done
  /\ LET r == validate_json_rpc_params_arg(Given(vres.vals))
     IN vagain' = [done |-> TRUE, ok |-> r.ok, exc |-> r.exc, val |-> None,
                   vals |-> r.vals, err |-> r.err]
  /\ UNCHANGED <<clientVars, setupVars, idVars, vmode, vparam, vparams, vres>>

NextValidator == Sanitize \/ Validate \/ ValidateAgain

SpecValidator == InitValidator /\ [][NextValidator]_vars

(* ------------------------------ claims --------------------------------- *)
NotInitialized ==
  BitcoinRPCError(PyStr(<<"RPC client not initialized">>), PyInt(0 - 1), None)
Is2xx(status) == 200 <= status /\ status <= 299
\* every character of the string lies outside the allowed class
OnlyOutside(p) ==
  p.t = "str" /\ \A j \in 1..Len(p.s) : p.s[j] \notin AllowedChars
\* the most recent call() handled a 2xx response with a decoded JSON object
Handled2xxObject == Is2xx(resp.status) /\ resp.body.json = "object"
HasNonNullError(body) == body.hasError /\ body.error.kind # "null"

\* C1: once close() has been called the session stays absent, and every
\* call() that finds it absent, whatever its method and params (valid or
\* not), raises "RPC client not initialized" (code -1) without posting.
C1_ClosedClientRejectsCalls ==
  /\ closes >= 1 => session = "none"
  /\ (last.method # "" /\ last.session = "none") =>
       /\ ret = NotInitialized
       /\ ~last.posted
       /\ request = NoRequest
       /\ history = <<>>
       /\ pc # "inflight"

C1_Witness ==
  /\ closes >= 1
  /\ op.name = "call"
  /\ last.session = "none"
  /\ Truthy(last.params)
  /\ ~validate_json_rpc_params(last.params.items).ok
  /\ ret = NotInitialized

\* C2: a call() on a ready client whose non-empty params hold a string made
\* only of characters outside the allowed class raises BitcoinRPCError with
\* code -32602 ("Invalid parameters: ...") and never reaches session.post.
C2_OutsideCharsRejectedBeforeTransport ==
  (/\ last.session = "ready"
   /\ Truthy(last.params)
   /\ \E i \in 1..Len(last.params.items) : OnlyOutside(last.params.items[i])) =>
     /\ ret.kind = "raise"
     /\ ret.exc = "BitcoinRPCError"
     /\ ret.code = PyInt(0 - 32602)
     /\ ret.message.s[1] = "Invalid parameters: "
     /\ ~last.posted
     /\ request = NoRequest
     /\ history = <<>>
     /\ resp = NoResponse

C2_Witness ==
  /\ last.session = "ready"
  /\ last.method = "getblock"
  /\ last.params = Given(<<PyStr(<<"a">>), PyStr(<<";">>)>>)
  /\ ret.code = PyInt(0 - 32602)
  /\ ~last.posted

\* C3 as claimed: a 2xx response whose decoded body has a non-null error
\* object makes call() raise BitcoinRPCError with exactly its message, code
\* and data, and with 'unknown RPC error', -1 and null for absent members.
C3_DefaultMessageLowercase ==
  (Handled2xxObject /\ HasNonNullError(resp.body) /\ resp.body.error.kind = "object") =>
    LET e == resp.body.error
    IN ret = BitcoinRPCError(
               IF e.hasMessage THEN e.message ELSE PyStr(<<"unknown RPC error">>),
               IF e.hasCode THEN e.code ELSE PyInt(0 - 1),
               IF e.hasData THEN e.data ELSE None)

\* C3 amended: the same, the default message being 'Unknown RPC error'.
C3_ErrorPreservedVerbatim ==
  (Handled2xxObject /\ HasNonNullError(resp.body) /\ resp.body.error.kind = "object") =>
    LET e == resp.body.error
    IN ret = BitcoinRPCError(
               IF e.hasMessage THEN e.message ELSE PyStr(<<"Unknown RPC error">>),
               IF e.hasCode THEN e.code ELSE PyInt(0 - 1),
               IF e.hasData THEN e.data ELSE None)

C3_Witness ==
  /\ Handled2xxObject
  /\ resp.body.error.kind = "object"
  /\ resp.body.error.hasMessage /\ resp.body.error.hasCode /\ resp.body.error.hasData
  /\ ret = BitcoinRPCError(PyStr(<<"Block not found">>), PyInt(0 - 5), PyDict(2))

\* C4: a response with status 401, 403 or 404 makes call() raise the error of
\* that status (code -1, no data), whatever the body says.
C4_StatusErrorNotBodyError ==
  (resp.status \in {401, 403, 404}) =>
    ret = BitcoinRPCError(
            PyStr(<<CASE resp.status = 401 -> "Authentication failed"
                      [] resp.status = 403 -> "Access forbidden"
                      [] resp.status = 404 -> "RPC endpoint not found">>),
            PyInt(0 - 1), None)

C4_Witness ==
  /\ resp.status = 401
  /\ resp.body.json = "object"
  /\ resp.body.error = FullError
  /\ ret.message = PyStr(<<"Authentication failed">>)

\* C5: while the attempts of a post have been answered by one or two 503
\* responses only, the call is still in flight and has raised nothing; and
\* when the third attempt is answered 200 with a result, call() returns it.
C5_TwoTransient503ThenSuccess ==
  /\ history \in {<<503>>, <<503, 503>>} =>
       pc = "inflight" /\ ret = NoOutcome /\ opRet = NoOutcome
  /\ (/\ history = <<503, 503, 200>>
      /\ resp.body.json = "object"
      /\ ~HasNonNullError(resp.body)
      /\ resp.body.hasResult) =>
       /\ ret = Return(resp.body.result)
       /\ op.name = "call" => opRet = ret

C5_Witness ==
  /\ history = <<503, 503, 200>>
  /\ op.name = "call"
  /\ opRet = Return(PyDict(1))

\* C6: a 2xx response whose decoded body has no non-null error member and
\* has a result member makes call() return exactly that member.
C6_ResultReturnedVerbatim ==
  (Handled2xxObject /\ ~HasNonNullError(resp.body) /\ resp.body.hasResult) =>
    ret = Return(resp.body.result)

C6_Witness ==
  /\ Handled2xxObject
  /\ resp.body.hasError /\ resp.body.error.kind = "null"
  /\ resp.body.hasResult /\ resp.body.result = None
  /\ ret = Return(None)

\* C7: after one or more close() calls the session is absent and the
\* underlying session has been released exactly once.
C7_CloseIdempotent ==
  closes >= 1 => session = "none" /\ released = 1

C7_Witness == closes >= 2 /\ session = "none" /\ released = 1

\* C8: __enter__ returns the client and leaves its session as it was; after
\* __exit__, with or without an exception in the body, close() has run, the
\* session is absent, and an exception of the body propagates.
C8_ScopeCloses ==
  /\ scope.st = "in" => scope.ret = "self" /\ scope.after = scope.before
  /\ scope.st = "exited" =>
       /\ session = "none"
       /\ closes >= 1 /\ released = 1
       /\ scope.propagated = scope.raised

C8_Witness ==
  /\ scope.st = "exited" /\ scope.raised /\ scope.propagated
  /\ session = "none" /\ closes = 1

\* C9 as claimed: sanitize_rpc_param raises the validation error, whose
\* message contains the parameter, for every string that has a character
\* outside the allowed class at any position.
C9_SanitizeRejectsAnyOutsideChar ==
  (/\ vmode = "sanitize" /\ vres.done
   /\ vparam.t = "str"
   /\ \E j \in 1..Len(vparam.s) : vparam.s[j] \notin AllowedChars) =>
     /\ ~vres.ok
     /\ Contains(vres.err, vparam.s)

\* the index of the first element that validate_json_rpc_params refuses
FirstRefused(ps) ==
  CHOOSE i \in 1..Len(ps) :
    /\ ~validate_element(ps[i]).ok
    /\ \A j \in 1..(i - 1) : validate_element(ps[j]).ok

\* the error text names element p: its text for a string, its type otherwise
Names(err, p) ==
  IF p.t = "str" THEN Contains(err, p.s) ELSE Contains(err, <<p.t>>)

C11_ValidateIdempotent ==
  (vmode = "validate" /\ vres.done /\ vres.ok /\ vagain.done) =>
    /\ vagain.ok
    /\ vagain.vals = vres.vals

C11_Witness ==
  /\ vmode = "validate" /\ vres.ok /\ vagain.done /\ vagain.ok
  /\ vparams = Given(<<PyStr(<<"a", "\n">>), PyList(1), None>>)
  /\ vagain.vals = vparams.items

\* C12 (as claimed): validate_json_rpc_params applied to an empty list or to
\* an absent (None) list returns its input unchanged and raises nothing.
C12_EmptyOrAbsentIsNoOp ==
  (vmode = "validate" /\ vres.done /\ ~Truthy(vparams)) =>
    /\ vres.ok
    /\ vres.vals = vparams.items

\* C12 (amended): applied to an empty list, validate_json_rpc_params returns
\* an empty list and raises nothing; applied to None it raises TypeError,
\* since it walks its argument without testing it.
C12_EmptyIsNoOpAbsentRaises ==
  (vmode = "validate" /\ vres.done) =>
    /\ vparams = Given(<<>>) => vres.ok /\ vres.vals = <<>>
    /\ vparams.absent => ~vres.ok /\ vres.exc = "TypeError"

C12_Witness ==
  /\ vmode = "validate" /\ vres.done
  /\ vparams = Absent /\ ~vres.ok /\ vres.exc = "TypeError"

\* C13: when a 2xx response decodes to an object with both a non-null error
\* member and a result member, call raises and never returns the result;
\* for an error object the exception is the one built from that member.
C13_ErrorTakesPrecedenceOverResult ==
  (Handled2xxObject /\ HasNonNullError(resp.body) /\ resp.body.hasResult) =>
    /\ ret.kind = "raise" /\ ret.exc = "BitcoinRPCError"
    /\ resp.body.error.kind = "object" => ret = rpc_error(resp.body.error)

C13_Witness ==
  /\ resp = [status |-> 200, body |-> ObjectBody(TRUE, FullError, TRUE, PyDict(1))]
  /\ ret = BitcoinRPCError(PyStr(<<"Block not found">>), PyInt(0 - 5), None)

\* C14 (as claimed): when a 2xx response decodes to an object with neither a
\* result member nor a non-null error member, call raises a protocol error
\* and returns no value.
C14_NeitherResultNorErrorRaises ==
  (Handled2xxObject /\ ~HasNonNullError(resp.body) /\ ~resp.body.hasResult) =>
    ret.kind = "raise" /\ ret.exc = "BitcoinRPCError"

\* C15: when the body of a 2xx response does not decode as JSON, call raises
\* the error with code -32700, and that response was the last HTTP attempt
\* of the call: nothing is posted again after it.
C15_UndecodableBodyParseError ==
  (Is2xx(resp.status) /\ resp.body.json = "invalid") =>
    /\ ret = BitcoinRPCError(PyStr(<<"Invalid JSON response: ">> \o resp.body.text),
                             PyInt(0 - 32700), None)
    /\ pc = "idle" /\ request = NoRequest
    /\ history # <<>> /\ history[Len(history)] = resp.status
    /\ \A i \in 1..(Len(history) - 1) : ~Is2xx(history[i])

C15_Witness ==
  /\ resp = [status |-> 201, body |-> TextBody]
  /\ ret.code = PyInt(0 - 32700)
  /\ history = <<503, 201>>

\* C16 (as claimed): every response with a status outside 200-299 other than
\* 401, 403 and 404 makes call raise "HTTP <status>: <body text>" (code -1),
\* whatever the body is.
C16_EveryNon2xxIsHttpError ==
  (resp.status # 0 /\ ~Is2xx(resp.status) /\ resp.status \notin {401, 403, 404}) =>
    ret = BitcoinRPCError(
            PyStr(<<"HTTP ", ToString(resp.status), ": ">> \o resp.body.text),
            PyInt(0 - 1), None)

\* C17 (as claimed): a post that raised makes call raise, with code -1,
\* "Request timeout after <timeout> seconds" for a connect or read timeout,
\* "Cannot connect to Bitcoin node at <url>" for any other connection
\* failure, and "Request failed: ..." for used-up retries.
C17_TransportErrorsByCause ==
  /\ cause \in {"connect_timeout", "read_timeout"} =>
       ret = BitcoinRPCError(
               PyStr(<<"Request timeout after ", ToString(Timeout), " seconds">>),
               PyInt(0 - 1), None)
  /\ cause = "refused" =>
       ret = BitcoinRPCError(PyStr(<<"Cannot connect to Bitcoin node at ", RpcUrl>>),
                             PyInt(0 - 1), None)
  /\ cause = "response" =>
       /\ ret.kind = "raise" /\ ret.exc = "BitcoinRPCError"
       /\ ret.message.s[1] = "Request failed: "
       /\ ret.code = PyInt(0 - 1)

\* C18: test_connection makes one call, of getblockchaininfo without params;
\* when that call returns it returns True, when it raises it raises the
\* same exception, and it never returns False.
C18_TestConnectionOneCallTrueOrRaise ==
  op.name = "test_connection" =>
    /\ op.phase = 1 /\ pc \in {"inflight", "idle"}
    /\ last.method = "getblockchaininfo" /\ last.params = Absent
    /\ pc = "inflight" =>
         request.method = "getblockchaininfo" /\ request.params = <<>>
    /\ pc = "idle" =>
         /\ ret.kind \in {"return", "raise"}
         /\ ret.kind = "return" => opRet = Return(PyBool(TRUE))
         /\ ret.kind = "raise" => opRet = ret
    /\ opRet # Return(PyBool(FALSE))

C18_Witness ==
  /\ op.name = "test_connection" /\ pc = "idle"
  /\ resp.status = 401
  /\ ret = BitcoinRPCError(PyStr(<<"Authentication failed">>), PyInt(0 - 1), None)
  /\ opRet = ret

\* C19: get_node_info calls getblockchaininfo first and getnetworkinfo
\* second; the second call is made only after the first returned; when
\* either call raises, get_node_info raises that same exception and
\* returns no summary.
C19_GetNodeInfoOrderAndPropagation ==
  op.name = "get_node_info" =>
    /\ op.phase \in {1, 2}
    /\ op.phase = 1 => last.method = "getblockchaininfo" /\ last.params = Absent
    /\ op.phase = 2 =>
         /\ last.method = "getnetworkinfo" /\ last.params = Absent
         /\ op.prev = "return"
    /\ pc = "between" => op.phase = 1 /\ ret.kind = "return"
    /\ (pc = "idle" /\ op.phase = 1) => ret.kind = "raise"
    /\ (pc = "idle" /\ ret.kind = "raise") => opRet = ret

C19_Witness ==
  /\ op = [name |-> "get_node_info", phase |-> 2, prev |-> "return"]
  /\ pc = "idle"
  /\ resp.status = 403
  /\ ret = BitcoinRPCError(PyStr(<<"Access forbidden">>), PyInt(0 - 1), None)
  /\ opRet = ret

\* C20: the body given to session.post has jsonrpc "2.0", an integer id,
\* the method call was given, and as params the validated list, which is
\* the empty list when params was absent or empty.
C20_RequestBodyShape ==
  pc = "inflight" =>
    /\ request.jsonrpc = "2.0"
    /\ request.id \in Int
    /\ request.method = last.method
    /\ Truthy(last.params) =>
         /\ validate_json_rpc_params(last.params.items).ok
         /\ request.params = validate_json_rpc_params(last.params.items).vals
    /\ ~Truthy(last.params) => request.params = <<>>

C20_Witness ==
  /\ pc = "inflight" /\ history = <<503>>
  /\ last.method = "getblock" /\ Len(last.params.items) = 2
  /\ request.method = "getblock" /\ request.params = last.params.items

\* the classified errors call raises for a failure of the transport
TransportErrors ==
  {BitcoinRPCError(PyStr(<<"Cannot connect to Bitcoin node at ", RpcUrl>>),
                   PyInt(0 - 1), None),
   BitcoinRPCError(
     PyStr(<<"Request timeout after ", ToString(Timeout), " seconds">>),
     PyInt(0 - 1), None),
   BitcoinRPCError(PyStr(<<"Request failed: ", "RetryError">>), PyInt(0 - 1), None)}

\* C21 (as claimed): a call whose post was in flight when close() ran on the
\* same client ends by raising a transport error; it does not return a
\* result.
C21_CloseFailsInFlightCall ==
  (last.interrupted /\ pc # "inflight") => ret \in TransportErrors

\* the code of every error built from the "error" member of a response body
RemoteCodes ==
  {rpc_error(e).code : e \in ErrorObjects \cup {FullError}}
\* the most recent call() raised the error of the body's "error" member
RaisedRemoteError ==
  /\ resp.status # 0 /\ ~raise_for_status_raises(resp.status)
  /\ resp.body.json = "object" /\ HasNonNullError(resp.body)
  /\ resp.body.error.kind = "object"

\* C22 (as claimed): an error that call raises by itself (not initialized,
\* invalid parameters, transport, HTTP status, undecodable body) never has
\* a code that an error built from a response's error member can have.
C22_CodeTellsOrigin ==
  (ret.kind = "raise" /\ ~RaisedRemoteError) => ret.code \notin RemoteCodes

AllOf(h, status) == h # <<>> /\ \A i \in 1..Len(h) : h[i] = status

\* C23 (as claimed): while every attempt of a call is answered 503, the
\* call makes at most 3 HTTP attempts, the total of the retry policy.
C23_AtMostTotalAttempts ==
  AllOf(history, 503) => Len(history) <= RetryTotal

\* C23 (amended): while every attempt of a call is answered 503, the call
\* makes at most 4 HTTP attempts, the first one and the 3 retries of the
\* policy; it is still in flight before the fourth and after the fourth it
\* raises "Request failed: ..." with code -1.
C23_AtMostTotalRetries ==
  AllOf(history, 503) =>
    /\ Len(history) <= RetryTotal + 1
    /\ Len(history) <= RetryTotal =>
         pc = "inflight" /\ ret = NoOutcome
    /\ Len(history) = RetryTotal + 1 =>
         /\ pc = "idle" /\ cause = "response"
         /\ ret = BitcoinRPCError(PyStr(<<"Request failed: ", "RetryError">>),
                                  PyInt(0 - 1), None)

C23_Witness ==
  /\ history = <<503, 503, 503, 503>>
  /\ pc = "idle" /\ ret.kind = "raise" /\ cause = "response"

\* C24: when the first HTTP attempt of a call is answered with a status
\* outside the retry forcelist (a 2xx with an RPC error or an undecodable
\* body, 400, 401, 403, 404, ...), that attempt is the only one: the call
\* ends at once with the outcome of that response.
C24_NonRetryableAnsweredOnce ==
  (history # <<>> /\ history[1] # 0 /\ history[1] \notin StatusForcelist) =>
    /\ Len(history) = 1
    /\ pc # "inflight"
    /\ resp.status = history[1]
    /\ ret = call_finish([done |-> TRUE, retries |-> RetryTotal, exc |-> ""],
                         Response(resp.status, resp.body))

C24_Witness ==
  /\ history = <<404>> /\ retriesLeft = RetryTotal
  /\ ret = BitcoinRPCError(PyStr(<<"RPC endpoint not found">>), PyInt(0 - 1), None)

\* C27: every call() that has ended either returned a value or raised
\* BitcoinRPCError, whatever the method, the params and the transport did.
C27_OnlyClassifiedErrorsEscapeCall ==
  (last.method # "" /\ pc # "inflight") =>
    \/ ret.kind = "return"
    \/ ret.kind = "raise" /\ ret.exc = "BitcoinRPCError"

C27_Witness ==
  /\ pc = "idle" /\ op.name = "call"
  /\ resp = [status |-> 200, body |-> ArrayBody]
  /\ ret.exc = "BitcoinRPCError" /\ ret.message.s[1] = "Unexpected error: "

\* C28 (as claimed): a get_node_info that has ended either returned the
\* six-key summary or raised BitcoinRPCError.
C28_GetNodeInfoSummaryOrClassified ==
  (op.name = "get_node_info" /\ pc = "idle") =>
    \/ opRet = Return(SummaryDict)
    \/ opRet.kind = "raise" /\ opRet.exc = "BitcoinRPCError"

\* C25 (as claimed): no two requests built by one client carry the same id.
C25_RequestIdsNeverReused ==
  \A i \in 1..Len(ids), j \in 1..Len(ids) : i # j => ids[i] # ids[j]

SetupWarning == LogRec("warning", <<"SSL certificate verification disabled">>)

\* C26: a client built with TLS on and verification off has suppressed the
\* insecure-request warning once and logged the verification warning once,
\* both during setup, and calls add nothing to either; a client built with
\* verification on or TLS off has done neither.
C26_WarningSuppressedOnceAtSetup ==
  LET off == config.use_ssl /\ ~config.ssl_verify
  IN /\ tls.suppressed = IF off THEN 1 ELSE 0
     /\ tls.warned = IF off THEN 1 ELSE 0
     /\ op.name = "none" => (SetupWarning \in log <=> off)
     /\ op.name # "none" => SetupWarning \notin log

C26_Witness ==
  /\ config = Config(TRUE, FALSE)
  /\ tls = [suppressed |-> 1, warned |-> 1]
  /\ op.name = "wallet_passphrase" /\ pc = "idle" /\ ret.kind = "return"

\* the strings that are secret: RPC user, RPC password, wallet passphrases
Secrets == {<<config.user>>, <<config.password>>} \cup {pp.s : pp \in Passphrases}

\* C30 (as claimed): no log record contains the RPC user, the RPC password
\* or a wallet passphrase given to wallet_passphrase or encrypt_wallet.
C30_NoSecretInLog ==
  \A r \in log : \A secret \in Secrets : ~Contains(r.msg, secret)

\* the lists in which a command itself put the '*' account or the
\* empty-string placeholder
SelfBuilt ==
  {list_transactions_params(10, 0, w) : w \in BOOLEAN}
  \cup {get_balance_params(PyStr(<<"*">>), 1, w) : w \in BOOLEAN}
  \cup {disconnect_node_params(n) : n \in {0, 7}}
  \cup {get_new_address_params(PyStr(<<>>), t) : t \in AddressTypes \ {None}}
  \cup {send_to_address_params(a, 1, PyStr(<<>>), ct, f) :
          a \in Addresses, ct \in Comments, f \in BOOLEAN}

\* C29 (as claimed): every non-empty parameter list that a command-layer
\* method builds by itself is accepted by validate_json_rpc_params.
C29_CommandBuiltParamsPass ==
  (vmode = "validate" /\ vres.done /\ Truthy(vparams)
     /\ vparams.items \in SelfBuilt) => vres.ok
====
